---- MODULE Spec2Model ----
(***************************************************************************)
(* Turing Roulette server (cmd/server/main.go, the stats/leaderboard       *)
(* version, lines 1-979).                                                  *)
(*                                                                         *)
(* One handler goroutine per websocket connection reads a riddle           *)
(* submission, registers a GameState and runs playRound: a round starts,   *)
(* one worker goroutine is launched per configured model that is not yet   *)
(* correct, the handler waits on the WaitGroup, counts the correct models  *)
(* and either starts the next round or finalizes the game (updateStats,    *)
(* addToLeaderboard, game-over events).  Three sync.Mutex values guard     *)
(* the registry/model states, the stats and the leaderboard.               *)
(*                                                                         *)
(* Texts are sequences of one-character strings so that checkAnswer can    *)
(* be computed as the code computes it.                                    *)
(***************************************************************************)
EXTENDS Integers, Sequences, FiniteSets, TLC

(***************************************************************************)
(* Bounds of the model.                                                    *)
(***************************************************************************)
MaxClues == 1        \* a submission carries 0..MaxClues clues
MaxInserts == 4      \* leaderboard inserts applied in StoreSpec
MaxChunkClues == 0   \* clues of a submission in ChunkSpec

\* websocket connections, each served by one handler goroutine
Conns == {1, 2}

(***************************************************************************)
(* Texts.                                                                  *)
(***************************************************************************)
Empty == << >>
Cat == <<"c", "a", "t">>
Dog == <<"d", "o", "g">>

\* the canonical answers a submission may carry
Answers == {Cat}
\* the full responses a backend may stream back without an error
Texts == {Empty, Cat, Dog}

Upper == <<"A","B","C","D","E","F","G","H","I","J","K","L","M",
           "N","O","P","Q","R","S","T","U","V","W","X","Y","Z">>
Lower == <<"a","b","c","d","e","f","g","h","i","j","k","l","m",
           "n","o","p","q","r","s","t","u","v","w","x","y","z">>

\* strings.ToLower, one character
ToLowerCh(ch) ==
    IF \E i \in 1..Len(Upper) : Upper[i] = ch
    THEN Lower[CHOOSE i \in 1..Len(Upper) : Upper[i] = ch]
    ELSE ch

\* strings.ToLower
ToLower(s) == [i \in 1..Len(s) |-> ToLowerCh(s[i])]

IsSpace(ch) == ch \in {" ", "\t", "\n", "\r"}

\* strings.TrimSpace
RECURSIVE TrimLeft(_)
TrimLeft(s) ==
    IF Len(s) > 0 /\ IsSpace(s[1]) THEN TrimLeft(Tail(s)) ELSE s

RECURSIVE TrimRight(_)
TrimRight(s) ==
    IF Len(s) > 0 /\ IsSpace(s[Len(s)])
    THEN TrimRight(SubSeq(s, 1, Len(s) - 1))
    ELSE s

TrimSpace(s) == TrimRight(TrimLeft(s))

HasPrefix(s, p) == Len(s) >= Len(p) /\ SubSeq(s, 1, Len(p)) = p

HasSuffix(s, p) ==
    Len(s) >= Len(p) /\ SubSeq(s, Len(s) - Len(p) + 1, Len(s)) = p

\* strings.TrimPrefix: removes the prefix once, if present
TrimPrefix(s, p) ==
    IF HasPrefix(s, p) THEN SubSeq(s, Len(p) + 1, Len(s)) ELSE s

\* strings.TrimSuffix: removes the suffix once, if present
TrimSuffix(s, p) ==
    IF HasSuffix(s, p) THEN SubSeq(s, 1, Len(s) - Len(p)) ELSE s

\* strings.Contains: the empty string is contained in every string
Contains(s, sub) ==
    \E i \in 0..(Len(s) - Len(sub)) : SubSeq(s, i + 1, i + Len(sub)) = sub

PfxTheAnswerIs ==
    <<"t","h","e"," ","a","n","s","w","e","r"," ","i","s"," ">>
PfxIBelieve ==
    <<"i"," ","b","e","l","i","e","v","e"," ">> \o PfxTheAnswerIs
PfxBasedOn ==
    <<"b","a","s","e","d"," ","o","n"," ","t","h","e"," ",
      "c","l","u","e","s",","," ","i","t","'","s"," ">>
PfxIts == <<"i","t","'","s"," ">>
PfxA == <<"a"," ">>
PfxAn == <<"a","n"," ">>

\* variant: the guess is not lowercased
NormalizeGuess_CaseSensitive(guess) ==
    LET g0 == TrimSpace(guess)
        g1 == TrimPrefix(g0, PfxTheAnswerIs)
        g2 == TrimPrefix(g1, PfxIBelieve)
        g3 == TrimPrefix(g2, PfxBasedOn)
        g4 == TrimPrefix(g3, PfxIts)
        g5 == TrimPrefix(g4, PfxA)
        g6 == TrimPrefix(g5, PfxAn)
        g7 == TrimSuffix(g6, <<"?">>)
    IN  TrimSuffix(g7, <<".">>)

\* the guess after the normalisation of checkAnswer
NormalizeGuess(guess) ==
    LET g0 == TrimSpace(ToLower(guess))
        g1 == TrimPrefix(g0, PfxTheAnswerIs)
        g2 == TrimPrefix(g1, PfxIBelieve)
        g3 == TrimPrefix(g2, PfxBasedOn)
        g4 == TrimPrefix(g3, PfxIts)
        g5 == TrimPrefix(g4, PfxA)
        g6 == TrimPrefix(g5, PfxAn)
        g7 == TrimSuffix(g6, <<"?">>)
    IN  TrimSuffix(g7, <<".">>)

\* variant: the answer must be found inside the guess
checkAnswer_GuessContains(guess, correctAnswer) ==
    LET g == NormalizeGuess(guess)
        answer == TrimSpace(ToLower(correctAnswer))
    IN  Contains(g, answer) \/ g = answer

checkAnswer(guess, correctAnswer) ==
    LET g == NormalizeGuess(guess)
        answer == TrimSpace(ToLower(correctAnswer))
    IN  Contains(g, answer) \/ Contains(answer, g) \/ g = answer

(***************************************************************************)
(* Configuration and inputs.                                               *)
(***************************************************************************)
KnownProviders == {"openai", "anthropic", "google", "ollama", "huggingface"}

ModelCfg(name, provider) == [Name |-> name, Provider |-> provider]

\* config.json is read once by loadConfig and is not validated: names may
\* repeat, the provider may be unknown, the list may be empty
Configs ==
    { << >>,
      <<ModelCfg("m1", "ollama"), ModelCfg("m2", "openai")>>,
      <<ModelCfg("m1", "ollama"), ModelCfg("m1", "ollama")>>,
      <<ModelCfg("m1", "ollama"), ModelCfg("m2", "bogus")>> }

\* three models, and more models than three
ThreeModels ==
    <<ModelCfg("m1", "ollama"), ModelCfg("m2", "openai"),
      ModelCfg("m3", "ollama")>>

FourModels ==
    <<ModelCfg("m1", "ollama"), ModelCfg("m2", "openai"),
      ModelCfg("m3", "ollama"), ModelCfg("m4", "openai")>>

Difficulties == {"easy", "hard", "bogus"}

\* time.Since(game.StartTime).Seconds() at finalization
Durations == {45, 120}

\* time.Since(startTime).Seconds() of one worker
RespTimes == {1}

\* a mutex is Free or held by a goroutine: <<c, 0>> is the handler of
\* connection c, <<c, i>> its worker for config.Models[i]
Free == <<0, 0>>
Handler(c) == <<c, 0>>

VARIABLES
    config,        \* config.Models
    pc,            \* handler goroutine of each connection: its position
    games,         \* the registry: connections that have an entry in games
    game,          \* the GameState the handler's game pointer refers to
    gamesMux,      \* Free or the goroutine holding it
    dispatchIdx,   \* index of the dispatch loop in playRound
    wg,            \* sync.WaitGroup counter of the running playRound
    wpc,           \* worker goroutines: position
    wres,          \* worker goroutines: response, err, isCorrect, responseTime
    gameResult,    \* the GameResult built at finalization
    sent,          \* messages written to the connection, in order
    backend,       \* each model's backend: "any" outcome, or always "timeout"
    connected,     \* whether the client end of the connection is still there
    snapshot,      \* the last response of GET /stats, if any
    stats,         \* the stats global
    statsMux,      \* Free or the goroutine holding it
    leaderboard,   \* the leaderboard global
    now,           \* clock reading used for leaderboard timestamps
    inserts,       \* number of inserts applied in StoreSpec
    startCorrect   \* history: the models that were Correct when the
                   \* current call of playRound began

vars == <<config, backend, connected, snapshot, pc, games, game, gamesMux, dispatchIdx, wg, wpc, wres,
          gameResult, sent, stats, statsMux, leaderboard, now, inserts,
          startCorrect>>

gameVars == <<config, backend, connected, snapshot, pc, games, game, gamesMux, dispatchIdx, wg, wpc, wres,
              gameResult, sent, statsMux, startCorrect>>

NoGame == [Answer |-> Empty, NumClues |-> 0, Difficulty |-> "",
           CurrentRound |-> 0, ModelStates |-> << >>]

NoResult == [PlayerWins |-> FALSE, CorrectCount |-> 0, TotalModels |-> 0,
             Difficulty |-> "", Duration |-> 0, RoundsPlayed |-> 0,
             Timestamp |-> 0]

NoRes == [response |-> Empty, err |-> FALSE, isCorrect |-> FALSE,
          responseTime |-> 0]

\* ModelState{}: the zero value
ZeroModelState ==
    [Correct |-> FALSE, Guess |-> Empty, Round |-> 0, AllGuesses |-> << >>,
     GuessResults |-> << >>, ResponseTime |-> 0, ResponseTimes |-> << >>]

\* Stats{ByDifficulty: make(map[string]int)}; a missing key reads as 0.
\* The float64 values are kept as exact fractions num/den.
ZeroStats ==
    [TotalGames |-> 0, Wins |-> 0, Losses |-> 0,
     WinRate |-> [num |-> 0, den |-> 1],
     ByDifficulty |-> [d \in Difficulties |-> 0],
     AverageDuration |-> [num |-> 0, den |-> 1],
     TotalDuration |-> 0]

ModelNames == {config[i].Name : i \in 1..Len(config)}

\* the names whose ModelState is Correct
CorrectNames(g) ==
    {m \in DOMAIN g.ModelStates : g.ModelStates[m].Correct}

\* one worker goroutine per index of config.Models
Workers == UNION {1..Len(cf) : cf \in Configs \cup {ThreeModels, FourModels}}

\* no backend is known to be down: every call may succeed or fail
AnyBackend == [i \in Workers |-> "any"]

\* The state after main has loaded the configuration and the stores, with
\* the connections of open upgraded and their handlers at conn.ReadJSON.
InitFull(cfgs, open, boards, backends) ==
    /\ config \in cfgs
    /\ backend \in backends
    /\ connected = [c \in Conns |-> c \in open]
    /\ snapshot = << >>
    /\ pc = [c \in Conns |-> IF c \in open THEN "read" ELSE "closed"]
    /\ games = {}
    /\ game = [c \in Conns |-> NoGame]
    /\ gamesMux = Free
    /\ dispatchIdx = [c \in Conns |-> 0]
    /\ wg = [c \in Conns |-> 0]
    /\ wpc = [c \in Conns |-> [i \in Workers |-> "idle"]]
    /\ wres = [c \in Conns |-> [i \in Workers |-> NoRes]]
    /\ gameResult = [c \in Conns |-> NoResult]
    /\ sent = [c \in Conns |-> << >>]
    /\ stats = ZeroStats
    /\ statsMux = Free
    /\ leaderboard \in boards
    /\ now = IF leaderboard = << >> THEN 0
             ELSE leaderboard[Len(leaderboard)].Timestamp
    /\ inserts = 0
    /\ startCorrect = [c \in Conns |-> {}]

InitWith(cfgs, open, boards) == InitFull(cfgs, open, boards, {AnyBackend})

\* one connection, every configuration
Init == InitWith(Configs, {1}, {<< >>})

\* variant: a submission is taken up whatever the handler is doing
Submit_Anytime(c) ==
    /\ pc[c] # "closed"
    /\ connected[c]
    /\ gamesMux = Free
    /\ \E answer \in Answers, n \in 0..MaxClues, d \in Difficulties :
          game' = [game EXCEPT ![c] =
                      [Answer |-> answer, NumClues |-> n, Difficulty |-> d,
                       CurrentRound |-> 0,
                       ModelStates |-> [m \in ModelNames |-> ZeroModelState]]]
    /\ games' = games \cup {c}
    /\ pc' = [pc EXCEPT ![c] = "roundStart"]
    /\ UNCHANGED <<config, backend, connected, snapshot, gamesMux,
                   dispatchIdx, wg, wpc, wres, gameResult, sent, stats,
                   statsMux, leaderboard, now, inserts, startCorrect>>

(***************************************************************************)
(* handleWebSocket                                                         *)
(***************************************************************************)
\* conn.ReadJSON returns a submission: the game is created and registered
\* under gamesMux, then playRound is called
Submit(c) ==
    /\ pc[c] = "read"
    /\ connected[c]
    /\ gamesMux = Free
    /\ \E answer \in Answers, n \in 0..MaxClues, d \in Difficulties :
          game' = [game EXCEPT ![c] =
                      [Answer |-> answer, NumClues |-> n, Difficulty |-> d,
                       CurrentRound |-> 0,
                       ModelStates |-> [m \in ModelNames |-> ZeroModelState]]]
    /\ games' = games \cup {c}
    /\ pc' = [pc EXCEPT ![c] = "roundStart"]
    /\ UNCHANGED <<config, backend, connected, snapshot, gamesMux, dispatchIdx, wg, wpc, wres, gameResult,
                   sent, stats, statsMux, leaderboard, now, inserts,
                   startCorrect>>

\* conn.ReadJSON returns an error: the loop ends, the registry entry is
\* deleted and the connection closed
ReadError(c) ==
    /\ pc[c] = "read"
    /\ gamesMux = Free
    /\ games' = games \ {c}
    /\ pc' = [pc EXCEPT ![c] = "closed"]
    /\ connected' = [connected EXCEPT ![c] = FALSE]
    /\ UNCHANGED <<config, backend, snapshot, game, gamesMux, dispatchIdx, wg,
                   wpc, wres,
                   gameResult, sent, stats, statsMux, leaderboard, now,
                   inserts,
                   startCorrect>>

(***************************************************************************)
(* playRound                                                               *)
(***************************************************************************)
RoundStart(c) ==
    /\ pc[c] = "roundStart"
    /\ sent' = [sent EXCEPT ![c] =
                   Append(@, <<"roundStart", game[c].CurrentRound>>)]
    /\ dispatchIdx' = [dispatchIdx EXCEPT ![c] = 1]
    /\ wres' = [wres EXCEPT ![c] = [i \in Workers |-> NoRes]]
    /\ startCorrect' = [startCorrect EXCEPT ![c] = CorrectNames(game[c])]
    /\ pc' = [pc EXCEPT ![c] = "dispatch"]
    /\ UNCHANGED <<config, backend, connected, snapshot, games, game, gamesMux, wg, wpc, gameResult,
                   stats, statsMux, leaderboard, now, inserts,
                   startCorrect>>

(***************************************************************************)
(* Unsynchronized accesses.  game.ModelStates is read without gamesMux by  *)
(* the dispatch loop and by buildPrompt while the workers started earlier  *)
(* in the round write it under gamesMux; the workers of a round call       *)
(* conn.WriteJSON (chunks while streaming, the result at the end) without  *)
(* any lock.  When two such accesses overlap, the step either goes through *)
(* in one of the two orders or the runtime ends the process (the fatal     *)
(* error "concurrent map read and map write", the panic of a concurrent    *)
(* write to the connection).                                               *)
(***************************************************************************)
\* a worker of c is inside the critical section that writes the map
MapWriter(c) == \E j \in Workers : wpc[c][j] = "update"

\* the worker of config.Models[j] is writing to the connection: chunks of a
\* backend that answers, or its result message
Writing(c, j) ==
    \/ /\ wpc[c][j] = "stream"
       /\ config[j].Provider \in KnownProviders
       /\ backend[j] = "any"
    \/ /\ wpc[c][j] = "send"
       /\ ~wres[c][j].err
    \/ wpc[c][j] = "body"

OtherWriter(c, i) == \E j \in Workers \ {i} : Writing(c, j)

\* the process dies: every goroutine is gone
Fault ==
    /\ pc' = [c \in Conns |-> "crashed"]
    /\ wpc' = [c \in Conns |-> [i \in Workers |-> "crashed"]]
    /\ UNCHANGED <<config, backend, connected, snapshot, games, game,
                   gamesMux, dispatchIdx, wg, wres, gameResult, sent, stats,
                   statsMux, leaderboard, now, inserts, startCorrect>>

\* one iteration of the loop over config.Models: skip a model whose state is
\* Correct, otherwise wg.Add(1) and start the worker goroutine; after the
\* last model the handler is at wg.Wait()
Dispatch(c) ==
    /\ pc[c] = "dispatch"
    /\ \/ /\ LET i == dispatchIdx[c] IN
             IF i > Len(config)
             THEN /\ pc' = [pc EXCEPT ![c] = "wait"]
                  /\ dispatchIdx' = [dispatchIdx EXCEPT ![c] = 0]
                  /\ UNCHANGED <<wg, wpc>>
             ELSE /\ dispatchIdx' = [dispatchIdx EXCEPT ![c] = i + 1]
                  /\ IF game[c].ModelStates[config[i].Name].Correct
                     THEN UNCHANGED <<wg, wpc>>
                     ELSE /\ wg' = [wg EXCEPT ![c] = @ + 1]
                          /\ wpc' = [wpc EXCEPT ![c][i] = "stream"]
                  /\ UNCHANGED pc
          /\ UNCHANGED <<config, backend, connected, snapshot, games, game,
                         gamesMux, wres, gameResult, sent, stats, statsMux,
                         leaderboard, now, inserts, startCorrect>>
       \/ /\ dispatchIdx[c] <= Len(config)
          /\ MapWriter(c)
          /\ Fault

\* variant: the prompt holds one clue less than the round index
CluesInPrompt_OneBehind(g) ==
    IF g.CurrentRound > 0 /\ g.CurrentRound <= g.NumClues
    THEN g.CurrentRound - 1 ELSE 0

\* the clues that buildPrompt puts into the prompt (lines 589-592)
CluesInPrompt(g) ==
    IF g.CurrentRound > 0 /\ g.CurrentRound <= g.NumClues
    THEN g.CurrentRound ELSE 0

\* the guesses of state.AllGuesses[from..] that the loop of buildPrompt
\* appends to incorrectGuesses (lines 597-601)
RECURSIVE ListedFrom(_, _)
ListedFrom(state, from) ==
    IF from > Len(state.AllGuesses) THEN << >>
    ELSE LET guess == state.AllGuesses[from]
             rest == ListedFrom(state, from + 1) IN
         IF ~state.GuessResults[from] /\ TrimSpace(guess) # Empty
         THEN <<guess>> \o rest ELSE rest

\* variant: the prompt lists every earlier guess of the model
IncorrectGuesses_All(state) ==
    SelectSeq(state.AllGuesses, LAMBDA guess : TrimSpace(guess) # Empty)

\* the list behind "Do not repeat these previous incorrect guesses" in the
\* prompt of a model, built from that model's entry of game.ModelStates
IncorrectGuesses(state) == ListedFrom(state, 1)

(***************************************************************************)
(* streamModelResponse, run by the worker goroutine of config.Models[i]    *)
(***************************************************************************)
\* variant: the answer is checked also when the call returned an error
WStream_NoErrBranch(c, i) ==
    /\ wpc[c][i] = "stream"
    /\ \E err \in BOOLEAN, text \in Texts, rt \in RespTimes :
          /\ config[i].Provider \notin KnownProviders => err
          /\ backend[i] = "timeout" => err
          /\ err => text = Empty
          /\ wres' = [wres EXCEPT ![c][i] =
                [response |-> text, err |-> err,
                 isCorrect |-> checkAnswer(text, game[c].Answer),
                 responseTime |-> rt,
                 clues |-> CluesInPrompt(game[c]),
                 avoid |-> IncorrectGuesses(
                              game[c].ModelStates[config[i].Name])]]
    /\ wpc' = [wpc EXCEPT ![c][i] = "lock"]
    /\ UNCHANGED <<config, backend, connected, snapshot, pc, games, game, gamesMux, dispatchIdx, wg,
                   gameResult, sent, stats, statsMux, leaderboard, now,
                   inserts, startCorrect>>

\* the provider switch and the backend call: an unknown provider is an
\* error; a backend returns an error (transport, timeout) or a full
\* response, which may be empty; on an error the response is cleared and
\* isCorrect is false, otherwise isCorrect = checkAnswer(response, Answer)
WStream(c, i) ==
    /\ wpc[c][i] = "stream"
    /\ \/ /\ \E err \in BOOLEAN, text \in Texts, rt \in RespTimes :
                /\ config[i].Provider \notin KnownProviders => err
                /\ backend[i] = "timeout" => err
                /\ err => text = Empty
                /\ wres' = [wres EXCEPT ![c][i] =
                      [response |-> text, err |-> err,
                       isCorrect |-> IF err THEN FALSE
                                     ELSE checkAnswer(text, game[c].Answer),
                       responseTime |-> rt,
                       clues |-> CluesInPrompt(game[c]),
                       avoid |-> IncorrectGuesses(
                                    game[c].ModelStates[config[i].Name])]]
          /\ wpc' = [wpc EXCEPT ![c][i] = "lock"]
          /\ UNCHANGED <<config, backend, connected, snapshot, pc, games,
                         game, gamesMux, dispatchIdx, wg, gameResult, sent,
                         stats, statsMux, leaderboard, now, inserts,
                         startCorrect>>
       \/ /\ MapWriter(c) \/ (Writing(c, i) /\ OtherWriter(c, i))
          /\ Fault

\* gamesMux.Lock()
WLock(c, i) ==
    /\ wpc[c][i] = "lock"
    /\ gamesMux = Free
    /\ gamesMux' = <<c, i>>
    /\ wpc' = [wpc EXCEPT ![c][i] = "update"]
    /\ UNCHANGED <<config, backend, connected, snapshot, pc, games, game, dispatchIdx, wg, wres,
                   gameResult, sent, stats, statsMux, leaderboard, now,
                   inserts,
                   startCorrect>>

\* variant: the response time of a wrong guess is not kept in the history
UpdatedState_TimesOfCorrectOnly(state, res, round) ==
    [Correct |-> res.isCorrect,
     Guess |-> res.response,
     Round |-> IF res.isCorrect THEN round + 1 ELSE state.Round,
     AllGuesses |-> Append(state.AllGuesses, res.response),
     GuessResults |-> Append(state.GuessResults, res.isCorrect),
     ResponseTime |-> res.responseTime,
     ResponseTimes |-> IF res.isCorrect
                       THEN Append(state.ResponseTimes, res.responseTime)
                       ELSE state.ResponseTimes]

\* the ModelState written back by the worker (lines 644-655)
UpdatedState(state, res, round) ==
    [Correct |-> res.isCorrect,
     Guess |-> res.response,
     Round |-> IF res.isCorrect THEN round + 1 ELSE state.Round,
     AllGuesses |-> Append(state.AllGuesses, res.response),
     GuessResults |-> Append(state.GuessResults, res.isCorrect),
     ResponseTime |-> res.responseTime,
     ResponseTimes |-> Append(state.ResponseTimes, res.responseTime)]

\* the critical section: read the state, update it, write it back, unlock
WUpdate(c, i) ==
    /\ wpc[c][i] = "update"
    /\ gamesMux = <<c, i>>
    /\ LET name == config[i].Name IN
       game' = [game EXCEPT ![c].ModelStates[name] =
                   UpdatedState(@, wres[c][i], game[c].CurrentRound)]
    /\ gamesMux' = Free
    /\ wpc' = [wpc EXCEPT ![c][i] = "send"]
    /\ UNCHANGED <<config, backend, connected, snapshot, pc, games, dispatchIdx, wg, wres, gameResult,
                   sent, stats, statsMux, leaderboard, now, inserts,
                   startCorrect>>

\* variant: the result message is written whether or not the call failed
WSend_Always(c, i) ==
    /\ wpc[c][i] = "send"
    /\ sent' = [sent EXCEPT ![c] =
                   Append(@, <<"result", config[i].Name,
                               wres[c][i].isCorrect>>)]
    /\ wg' = [wg EXCEPT ![c] = @ - 1]
    /\ wpc' = [wpc EXCEPT ![c][i] = "idle"]
    /\ UNCHANGED <<config, backend, connected, snapshot, pc, games, game, gamesMux, dispatchIdx, wres,
                   gameResult, stats, statsMux, leaderboard, now, inserts,
                   startCorrect>>

\* the result message, only if err == nil; then the deferred wg.Done()
WSend(c, i) ==
    /\ wpc[c][i] = "send"
    /\ \/ /\ sent' = [sent EXCEPT ![c] =
                         IF wres[c][i].err THEN @
                         ELSE Append(@, <<"result", config[i].Name,
                                          wres[c][i].isCorrect>>)]
          /\ wg' = [wg EXCEPT ![c] = @ - 1]
          /\ wpc' = [wpc EXCEPT ![c][i] = "idle"]
          /\ UNCHANGED <<config, backend, connected, snapshot, pc, games,
                         game, gamesMux, dispatchIdx, wres, gameResult,
                         stats, statsMux, leaderboard, now, inserts,
                         startCorrect>>
       \/ /\ ~wres[c][i].err
          /\ OtherWriter(c, i)
          /\ Fault

(***************************************************************************)
(* playRound after the dispatch loop                                       *)
(***************************************************************************)
\* variant: the handler does not wait for the workers
Wait_NoBarrier(c) ==
    /\ pc[c] = "wait"
    /\ pc' = [pc EXCEPT ![c] = "decide"]
    /\ UNCHANGED <<config, backend, connected, snapshot, games, game, gamesMux, dispatchIdx, wg, wpc, wres,
                   gameResult, sent, stats, statsMux, leaderboard, now,
                   inserts, startCorrect>>

\* wg.Wait() returns when the counter is zero
Wait(c) ==
    /\ pc[c] = "wait"
    /\ wg[c] = 0
    /\ pc' = [pc EXCEPT ![c] = "decide"]
    /\ UNCHANGED <<config, backend, connected, snapshot, games, game, gamesMux, dispatchIdx, wg, wpc, wres,
                   gameResult, sent, stats, statsMux, leaderboard, now,
                   inserts,
                   startCorrect>>

\* the loop over game.ModelStates counting the Correct states
CorrectCount(g) == Cardinality(CorrectNames(g))

totalModels == Len(config)
allCorrect(g) == CorrectCount(g) = totalModels
someCorrect(g) == CorrectCount(g) > 0 /\ CorrectCount(g) < totalModels
\* variant: one more round is played after the clues are exhausted
cluesExhausted_Late(g) == g.CurrentRound > g.NumClues

cluesExhausted(g) == g.CurrentRound >= g.NumClues

\* variant: the player wins as soon as one model is correct
BuildResult_AnyCorrect(correctCount, total, difficulty, duration, round, ts) ==
    [PlayerWins |-> correctCount > 0,
     CorrectCount |-> correctCount,
     TotalModels |-> total,
     Difficulty |-> difficulty,
     Duration |-> duration,
     RoundsPlayed |-> round + 1,
     Timestamp |-> ts]

\* the GameResult literal of playRound (lines 537-545), with allCorrect and
\* someCorrect as computed from correctCount and totalModels (lines 520-521)
BuildResult(correctCount, total, difficulty, duration, round, ts) ==
    [PlayerWins |-> (correctCount > 0 /\ correctCount < total)
                       /\ ~(correctCount = total),
     CorrectCount |-> correctCount,
     TotalModels |-> total,
     Difficulty |-> difficulty,
     Duration |-> duration,
     RoundsPlayed |-> round + 1,
     Timestamp |-> ts]

\* the branch of playRound that ends the game
GameOver(g) == allCorrect(g) \/ cluesExhausted(g)

\* the outcome is computed (lines 510-545).  If the game is over the
\* GameResult is built and updateStats is called; otherwise CurrentRound is
\* incremented, the round result is written to the connection and, after
\* the pause, playRound is called again
Decide(c) ==
    /\ pc[c] = "decide"
    /\ LET g == game[c] IN
       IF GameOver(g)
       THEN /\ \E d \in Durations :
                 gameResult' = [gameResult EXCEPT ![c] =
                    BuildResult(CorrectCount(g), totalModels, g.Difficulty,
                                d, g.CurrentRound, now)]
            /\ pc' = [pc EXCEPT ![c] = "updateStats"]
            /\ UNCHANGED <<game, sent>>
       ELSE /\ game' = [game EXCEPT ![c].CurrentRound = @ + 1]
            /\ sent' = [sent EXCEPT ![c] =
                  Append(@, <<"gameResult", FALSE, CorrectCount(g),
                              g.CurrentRound + 1>>)]
            /\ pc' = [pc EXCEPT ![c] = "roundStart"]
            /\ UNCHANGED gameResult
    /\ UNCHANGED <<config, backend, connected, snapshot, games, gamesMux, dispatchIdx, wg, wpc, wres,
                   stats, statsMux, leaderboard, now, inserts,
                   startCorrect>>

(***************************************************************************)
(* updateStats and saveStats                                               *)
(***************************************************************************)
\* the mutation of updateStats (lines 368-385)
UpdatedStats(st, result) ==
    LET total == st.TotalGames + 1
        wins == IF result.PlayerWins THEN st.Wins + 1 ELSE st.Wins
        losses == IF result.PlayerWins THEN st.Losses ELSE st.Losses + 1
        duration == st.TotalDuration + result.Duration
    IN  [TotalGames |-> total,
         Wins |-> wins,
         Losses |-> losses,
         WinRate |-> IF total > 0 THEN [num |-> wins * 100, den |-> total]
                     ELSE st.WinRate,
         ByDifficulty |-> [st.ByDifficulty EXCEPT ![result.Difficulty] = @ + 1],
         AverageDuration |-> [num |-> duration, den |-> total],
         TotalDuration |-> duration]

\* updateStats: statsMux.Lock(), the mutation, then the call of saveStats
\* with the mutex still held (its Unlock is deferred)
UpdateStats(c) ==
    /\ pc[c] = "updateStats"
    /\ statsMux = Free
    /\ statsMux' = Handler(c)
    /\ stats' = UpdatedStats(stats, gameResult[c])
    /\ pc' = [pc EXCEPT ![c] = "saveStats"]
    /\ UNCHANGED <<config, backend, connected, snapshot, games, game, gamesMux, dispatchIdx, wg, wpc, wres,
                   gameResult, sent, leaderboard, now, inserts,
                   startCorrect>>

\* saveStats begins with statsMux.Lock().  sync.Mutex is not reentrant: if
\* the mutex is held, by whichever goroutine, the caller parks until it is
\* unlocked.  Otherwise the file is written, both mutexes are released and
\* updateStats returns to playRound, which calls addToLeaderboard.
SaveStats(c) ==
    /\ pc[c] = "saveStats"
    /\ IF statsMux = Free
       THEN pc' = [pc EXCEPT ![c] = "addToLeaderboard"]
       ELSE pc' = [pc EXCEPT ![c] = "saveStatsParked"]
    /\ UNCHANGED <<config, backend, connected, snapshot, games, game, gamesMux, dispatchIdx, wg, wpc, wres,
                   gameResult, sent, stats, statsMux, leaderboard, now,
                   inserts,
                   startCorrect>>


(***************************************************************************)
(* calculateScore and addToLeaderboard                                     *)
(***************************************************************************)
\* float64(baseScore) * multiplier: 100 times 1.0, 1.5 or 2.0, and 1.0 for
\* a difficulty that is not a key of the map
\* variant: an unrecognized difficulty has multiplier 0
BaseTimesMultiplier_ZeroDefault(difficulty) ==
    CASE difficulty = "easy" -> 100
      [] difficulty = "medium" -> 150
      [] difficulty = "hard" -> 200
      [] OTHER -> 0

BaseTimesMultiplier(difficulty) ==
    CASE difficulty = "easy" -> 100
      [] difficulty = "medium" -> 150
      [] difficulty = "hard" -> 200
      [] OTHER -> 100

\* variant: the bonus does not decay after 60 seconds
TimeBonus_NoDecay(duration) ==
    50

\* the time bonus as it enters int(score): 50 up to 60 seconds, then
\* 50 * (60 / duration); the other terms of the sum are whole numbers, so
\* the conversion to int cuts the fraction of the bonus
TimeBonus(duration) ==
    IF duration > 60 THEN (50 * 60) \div duration ELSE 50

\* variant: a lost game is scored like a won one
calculateScore_NoLossCheck(result) ==
    BaseTimesMultiplier(result.Difficulty) + TimeBonus(result.Duration)
    + (result.TotalModels - result.CorrectCount) * 20

calculateScore(result) ==
    IF ~result.PlayerWins THEN 0
    ELSE BaseTimesMultiplier(result.Difficulty) + TimeBonus(result.Duration)
         + (result.TotalModels - result.CorrectCount) * 20

\* the LeaderboardEntry literal (lines 391-400)
Entry(result) ==
    [Difficulty |-> result.Difficulty,
     PlayerWon |-> result.PlayerWins,
     CorrectCount |-> result.CorrectCount,
     TotalModels |-> result.TotalModels,
     Duration |-> result.Duration,
     Timestamp |-> result.Timestamp,
     Score |-> calculateScore(result)]

\* variant: the exchange copies one entry over the other
Swap_Overwrite(lb, i, j) == [lb EXCEPT ![i] = lb[j]]

\* leaderboard[i], leaderboard[j] = leaderboard[j], leaderboard[i]
Swap(lb, i, j) == [lb EXCEPT ![i] = lb[j], ![j] = lb[i]]

\* for j := i + 1; j < len; j++ { if lb[j].Score > lb[i].Score { swap } }
RECURSIVE InnerLoop(_, _, _)
InnerLoop(lb, i, j) ==
    IF j > Len(lb) THEN lb
    ELSE InnerLoop(IF lb[j].Score > lb[i].Score THEN Swap(lb, i, j) ELSE lb,
                   i, j + 1)

\* for i := 0; i < len - 1; i++ { inner loop }
RECURSIVE OuterLoop(_, _)
OuterLoop(lb, i) ==
    IF i > Len(lb) - 1 THEN lb
    ELSE OuterLoop(InnerLoop(lb, i, i + 1), i + 1)

SortByScore(lb) == OuterLoop(lb, 1)

LeaderboardCap == 100

\* variant: the cut is taken one entry too late
KeepTop_OffByOne(lb) ==
    IF Len(lb) > LeaderboardCap + 1 THEN SubSeq(lb, 1, LeaderboardCap) ELSE lb

\* "Keep top 100"
KeepTop(lb) ==
    IF Len(lb) > LeaderboardCap THEN SubSeq(lb, 1, LeaderboardCap) ELSE lb

\* the leaderboard after addToLeaderboard has appended the entry, sorted
\* and truncated (lines 405-419)
addToLeaderboard(lb, result) ==
    KeepTop(SortByScore(Append(lb, Entry(result))))

Next ==
    \/ \E c \in Conns : Submit(c)
    \/ \E c \in Conns : ReadError(c)
    \/ \E c \in Conns : RoundStart(c)
    \/ \E c \in Conns : Dispatch(c)
    \/ \E c \in Conns, i \in Workers : WStream(c, i)
    \/ \E c \in Conns, i \in Workers : WLock(c, i)
    \/ \E c \in Conns, i \in Workers : WUpdate(c, i)
    \/ \E c \in Conns, i \in Workers : WSend(c, i)
    \/ \E c \in Conns : Wait(c)
    \/ \E c \in Conns : Decide(c)
    \/ \E c \in Conns : UpdateStats(c)
    \/ \E c \in Conns : SaveStats(c)

Spec == Init /\ [][Next]_vars

(***************************************************************************)
(* Two connections playing at the same time, one configured model.         *)
(***************************************************************************)
InitSessions == InitWith({<<ModelCfg("m1", "ollama")>>}, Conns, {<< >>})

SessionsSpec == InitSessions /\ [][Next]_vars

(***************************************************************************)
(* One connection and four configured models; the backends of all but the  *)
(* first are down.                                                         *)
(***************************************************************************)
OnlyFirstUp == [i \in Workers |-> IF i = 1 THEN "any" ELSE "timeout"]

InitMany == InitFull({FourModels}, {1}, {<< >>}, {OnlyFirstUp})

ManySpec == InitMany /\ [][Next]_vars

(***************************************************************************)
(* One connection and three configured models, of which the second and     *)
(* the third time out in every round.                                      *)
(***************************************************************************)
InitTimeouts == InitFull({ThreeModels}, {1}, {<< >>}, {OnlyFirstUp})

TimeoutSpec == InitTimeouts /\ [][Next]_vars

(***************************************************************************)
(* The leaderboard under a sequence of inserts: the transformation that    *)
(* addToLeaderboard applies to the leaderboard inside its critical         *)
(* section, for the results of finished games in the order in which the    *)
(* mutex admits them.                                                      *)
(***************************************************************************)
\* the results of finished games with two configured models
StoreResults ==
    {BuildResult(cc, 2, d, dur, 0, 0) :
        cc \in 0..1, d \in {"easy", "hard"}, dur \in {45}}

\* Prefilled(n): the leaderboard after n lost games have been inserted
LostGame(t) == Entry(BuildResult(0, 2, "easy", 45, 0, t))
Prefilled(n) == [t \in 1..n |-> LostGame(t)]

StoreInsert ==
    /\ inserts < MaxInserts
    /\ \E r \in StoreResults :
          leaderboard' =
              addToLeaderboard(leaderboard, [r EXCEPT !.Timestamp = now + 1])
    /\ now' = now + 1
    /\ inserts' = inserts + 1
    /\ UNCHANGED <<gameVars, stats>>

StoreInit ==
    InitWith({<<ModelCfg("m1", "ollama"), ModelCfg("m2", "openai")>>}, {},
             {<< >>, Prefilled(LeaderboardCap - 2)})

StoreNext == StoreInsert

StoreSpec == StoreInit /\ [][StoreNext]_vars

(***************************************************************************)
(* One insert at a time, with the result handed to addToLeaderboard kept   *)
(* in gameResult: from the empty leaderboard, and from leaderboards one    *)
(* entry short of the cap that hold lost games or won games.               *)
(***************************************************************************)
\* the leaderboard after n games won at the "easy" difficulty
WonGame(t) == Entry(BuildResult(1, 2, "easy", 45, 0, t))
PrefilledWon(n) == [t \in 1..n |-> WonGame(t)]

FrameInsert ==
    /\ inserts < MaxInserts
    /\ \E r \in StoreResults :
          LET result == [r EXCEPT !.Timestamp = now + 1] IN
          /\ gameResult' = [gameResult EXCEPT ![1] = result]
          /\ leaderboard' = addToLeaderboard(leaderboard, result)
    /\ now' = now + 1
    /\ inserts' = inserts + 1
    /\ UNCHANGED <<config, backend, connected, snapshot, pc, games, game,
                   gamesMux, dispatchIdx, wg, wpc, wres, sent, stats,
                   statsMux, startCorrect>>

FrameInit ==
    InitWith({<<ModelCfg("m1", "ollama"), ModelCfg("m2", "openai")>>}, {},
             {<< >>, Prefilled(LeaderboardCap - 1),
              PrefilledWon(LeaderboardCap - 1)})

FrameNext == FrameInsert

FrameSpec == FrameInit /\ [][FrameNext]_vars

(***************************************************************************)
(* The stats store statement by statement: updateStats as the sequence of  *)
(* its writes under statsMux, and GET /stats, for two connections with one *)
(* configured model whose backend is down.                                 *)
(***************************************************************************)
\* statsMux.Lock() of updateStats
StatsLock(c) ==
    /\ pc[c] = "updateStats"
    /\ statsMux = Free
    /\ statsMux' = Handler(c)
    /\ pc' = [pc EXCEPT ![c] = "statsTotal"]
    /\ UNCHANGED <<config, backend, connected, snapshot, games, game,
                   gamesMux, dispatchIdx, wg, wpc, wres, gameResult, sent,
                   stats, leaderboard, now, inserts, startCorrect>>

\* stats.TotalGames++
StatsTotal(c) ==
    /\ pc[c] = "statsTotal"
    /\ stats' = [stats EXCEPT !.TotalGames = @ + 1]
    /\ pc' = [pc EXCEPT ![c] = "statsOutcome"]
    /\ UNCHANGED <<config, backend, connected, snapshot, games, game,
                   gamesMux, dispatchIdx, wg, wpc, wres, gameResult, sent,
                   statsMux, leaderboard, now, inserts, startCorrect>>

\* Wins++ or Losses++, then the win rate
StatsOutcome(c) ==
    /\ pc[c] = "statsOutcome"
    /\ LET wins == IF gameResult[c].PlayerWins THEN stats.Wins + 1
                   ELSE stats.Wins
           losses == IF gameResult[c].PlayerWins THEN stats.Losses
                     ELSE stats.Losses + 1
       IN  stats' = [stats EXCEPT
                        !.Wins = wins, !.Losses = losses,
                        !.WinRate = IF stats.TotalGames > 0
                                    THEN [num |-> wins * 100,
                                          den |-> stats.TotalGames]
                                    ELSE @]
    /\ pc' = [pc EXCEPT ![c] = "statsDifficulty"]
    /\ UNCHANGED <<config, backend, connected, snapshot, games, game,
                   gamesMux, dispatchIdx, wg, wpc, wres, gameResult, sent,
                   statsMux, leaderboard, now, inserts, startCorrect>>

\* ByDifficulty[d]++, the durations, then the call of saveStats
StatsDifficulty(c) ==
    /\ pc[c] = "statsDifficulty"
    /\ LET duration == stats.TotalDuration + gameResult[c].Duration
       IN  stats' = [stats EXCEPT
                        !.ByDifficulty[gameResult[c].Difficulty] = @ + 1,
                        !.TotalDuration = duration,
                        !.AverageDuration = [num |-> duration,
                                             den |-> stats.TotalGames]]
    /\ pc' = [pc EXCEPT ![c] = "saveStats"]
    /\ UNCHANGED <<config, backend, connected, snapshot, games, game,
                   gamesMux, dispatchIdx, wg, wpc, wres, gameResult, sent,
                   statsMux, leaderboard, now, inserts, startCorrect>>

\* variant: the handler encodes stats without taking statsMux
GetStats_NoLock ==
    /\ snapshot' = <<stats>>
    /\ UNCHANGED <<config, backend, connected, pc, games, game, gamesMux,
                   dispatchIdx, wg, wpc, wres, gameResult, sent, stats,
                   statsMux, leaderboard, now, inserts, startCorrect>>

\* handleGetStats: statsMux.Lock(), encode stats, Unlock
GetStats ==
    /\ statsMux = Free
    /\ snapshot' = <<stats>>
    /\ UNCHANGED <<config, backend, connected, pc, games, game, gamesMux,
                   dispatchIdx, wg, wpc, wres, gameResult, sent, stats,
                   statsMux, leaderboard, now, inserts, startCorrect>>

AllDown == [i \in Workers |-> "timeout"]

InitSnapshot ==
    InitFull({<<ModelCfg("m1", "ollama")>>}, Conns, {<< >>}, {AllDown})

SnapshotNext ==
    \/ \E c \in Conns : Submit(c)
    \/ \E c \in Conns : ReadError(c)
    \/ \E c \in Conns : RoundStart(c)
    \/ \E c \in Conns : Dispatch(c)
    \/ \E c \in Conns, i \in Workers : WStream(c, i)
    \/ \E c \in Conns, i \in Workers : WLock(c, i)
    \/ \E c \in Conns, i \in Workers : WUpdate(c, i)
    \/ \E c \in Conns, i \in Workers : WSend(c, i)
    \/ \E c \in Conns : Wait(c)
    \/ \E c \in Conns : Decide(c)
    \/ \E c \in Conns : StatsLock(c)
    \/ \E c \in Conns : StatsTotal(c)
    \/ \E c \in Conns : StatsOutcome(c)
    \/ \E c \in Conns : StatsDifficulty(c)
    \/ \E c \in Conns : SaveStats(c)
    \/ GetStats

SnapshotSpec == InitSnapshot /\ [][SnapshotNext]_vars

(***************************************************************************)
(* calculateScore on the results of finished games: every difficulty tag,  *)
(* durations on both sides of 60 seconds, every count of correct models    *)
(* out of up to three.  One result is scored and inserted into the empty   *)
(* leaderboard.                                                            *)
(***************************************************************************)
ScoreDifficulties == {"easy", "medium", "hard", "bogus"}

\* whole seconds
ScoreDurations == {0, 45, 60, 61, 90, 120, 3001}

ScoreInputs ==
    {BuildResult(cc, total, d, dur, 0, 1) :
        cc \in 0..3, total \in 0..3, d \in ScoreDifficulties,
        dur \in ScoreDurations}

ScoreInsert ==
    /\ leaderboard = << >>
    /\ \E r \in ScoreInputs :
          /\ r.CorrectCount <= r.TotalModels
          /\ leaderboard' = addToLeaderboard(leaderboard, r)
    /\ now' = now + 1
    /\ inserts' = inserts + 1
    /\ UNCHANGED <<gameVars, stats>>

ScoreInit == InitWith({ThreeModels}, {}, {<< >>})

ScoreNext == ScoreInsert

ScoreSpec == ScoreInit /\ [][ScoreNext]_vars

(***************************************************************************)
(* checkAnswer on its own: the evaluation of streamModelResponse (line     *)
(* 639) applied to a response and a canonical answer drawn from texts with *)
(* capitals, surrounding blanks, the prefixes that are stripped and        *)
(* trailing punctuation.                                                   *)
(***************************************************************************)
MatchTexts ==
    { <<"T","h","e"," ","a","n","s","w","e","r"," ","i","s"," ","P","a","r","i","s",".">>,
      <<"p","a","r","i","s">>,
      <<"P","a","r","i","s">>,
      <<"T","o","k","y","o">>,
      <<"a"," ","c","a","t">>,
      <<"I","t","'","s"," ","a"," ","c","a","t","?">>,
      <<" ","C","a","t","."," ">>,
      <<"a","n"," ">>,
      <<"?">>,
      <<"a"," ","a","n"," ","x">>,
      <<"a","n"," ","a"," ","x">>,
      <<"x","?",".">>,
      << >> }

Match ==
    /\ \E t \in MatchTexts, a \in MatchTexts :
          /\ game' = [game EXCEPT ![1].Answer = a]
          /\ wres' = [wres EXCEPT ![1][1] =
                [response |-> t, err |-> FALSE,
                 isCorrect |-> checkAnswer(t, a),
                 responseTime |-> 1,
                 clues |-> 0, avoid |-> << >>]]
    /\ UNCHANGED <<config, backend, connected, snapshot, pc, games, gamesMux,
                   dispatchIdx, wg, wpc, gameResult, sent, stats, statsMux,
                   leaderboard, now, inserts, startCorrect>>

MatchInit == InitWith({<<ModelCfg("m1", "ollama")>>}, {}, {<< >>})

MatchNext == Match

MatchSpec == MatchInit /\ [][MatchNext]_vars

(***************************************************************************)
(* Fairness: every goroutine that can take a step eventually takes one,    *)
(* and every backend call returns (each call carries a 60 second           *)
(* deadline).  What the client sends is not subject to fairness.           *)
(***************************************************************************)
HandlerStep(c) ==
    \/ RoundStart(c) \/ Dispatch(c) \/ Wait(c) \/ Decide(c)
    \/ UpdateStats(c) \/ SaveStats(c)

WorkerStep(c, i) == WStream(c, i) \/ WLock(c, i) \/ WUpdate(c, i) \/ WSend(c, i)

FairSpec ==
    /\ Spec
    /\ \A c \in Conns : WF_vars(HandlerStep(c))
    /\ \A c \in Conns, i \in Workers : WF_vars(WorkerStep(c, i))

(***************************************************************************)
(* The client going away.  Nothing in playRound looks at the connection:   *)
(* the errors of conn.WriteJSON are dropped, and the handler learns of a   *)
(* closed transport only from conn.ReadJSON, between two games.            *)
(***************************************************************************)
Disconnect(c) ==
    /\ connected[c]
    /\ pc[c] # "closed"
    /\ connected' = [connected EXCEPT ![c] = FALSE]
    /\ UNCHANGED <<config, backend, snapshot, pc, games, game, gamesMux, dispatchIdx,
                   wg, wpc, wres, gameResult, sent, stats, statsMux,
                   leaderboard, now, inserts, startCorrect>>

\* conn.ReadJSON on a transport that is gone returns an error
ReadClosed(c) == ~connected[c] /\ ReadError(c)

InitTeardown == InitWith({<<ModelCfg("m1", "ollama")>>}, {1}, {<< >>})

TeardownNext == Next \/ \E c \in Conns : Disconnect(c)

TeardownSpec ==
    /\ InitTeardown /\ [][TeardownNext]_vars
    /\ \A c \in Conns : WF_vars(HandlerStep(c)) /\ WF_vars(ReadClosed(c))
    /\ \A c \in Conns, i \in Workers : WF_vars(WorkerStep(c, i))

(***************************************************************************)
(* The backend call fragment by fragment: the stream functions read the    *)
(* response body one fragment at a time, append it to the full response    *)
(* and write it to the connection as a "guess" message, then return; one   *)
(* connection and two configured models.                                   *)
(***************************************************************************)
\* the bodies a backend answers with, as the sequence of their fragments
Bodies == {<< >>, <<Dog>>, << <<"c">>, <<"a", "t">> >>}

\* the provider switch, the request and the HTTP response: an error, or a
\* body that is read next
WOpen(c, i) ==
    /\ wpc[c][i] = "stream"
    /\ \/ /\ \E err \in BOOLEAN, body \in Bodies, rt \in RespTimes :
                /\ config[i].Provider \notin KnownProviders => err
                /\ backend[i] = "timeout" => err
                /\ err => body = << >>
                /\ wres' = [wres EXCEPT ![c][i] =
                      [response |-> Empty, err |-> err, isCorrect |-> FALSE,
                       responseTime |-> rt,
                       clues |-> CluesInPrompt(game[c]),
                       avoid |-> IncorrectGuesses(
                                    game[c].ModelStates[config[i].Name]),
                       body |-> body, read |-> 0]]
                /\ wpc' = [wpc EXCEPT ![c][i] =
                              IF err THEN "lock" ELSE "body"]
          /\ UNCHANGED <<config, backend, connected, snapshot, pc, games,
                         game, gamesMux, dispatchIdx, wg, gameResult, sent,
                         stats, statsMux, leaderboard, now, inserts,
                         startCorrect>>
       \/ /\ MapWriter(c)
          /\ Fault

\* variant: the fragments are written starting from the last one
WChunk_LastFirst(c, i) ==
    /\ wpc[c][i] = "body"
    /\ wres[c][i].read < Len(wres[c][i].body)
    /\ LET res == wres[c][i]
           content == res.body[Len(res.body) - res.read] IN
       /\ wres' = [wres EXCEPT ![c][i].read = @ + 1,
                               ![c][i].response = @ \o content]
       /\ sent' = [sent EXCEPT ![c] =
                      Append(@, <<"guess", config[i].Name, content>>)]
    /\ UNCHANGED <<config, backend, connected, snapshot, pc, games,
                   game, gamesMux, dispatchIdx, wg, wpc, gameResult,
                   stats, statsMux, leaderboard, now, inserts,
                   startCorrect>>

\* one iteration of the read loop: the next fragment of the body is
\* appended to fullResponse and written as a "guess" message
WChunk(c, i) ==
    /\ wpc[c][i] = "body"
    /\ wres[c][i].read < Len(wres[c][i].body)
    /\ \/ /\ LET res == wres[c][i]
                 content == res.body[res.read + 1] IN
             /\ wres' = [wres EXCEPT ![c][i].read = @ + 1,
                                     ![c][i].response = @ \o content]
             /\ sent' = [sent EXCEPT ![c] =
                            Append(@, <<"guess", config[i].Name, content>>)]
          /\ UNCHANGED <<config, backend, connected, snapshot, pc, games,
                         game, gamesMux, dispatchIdx, wg, wpc, gameResult,
                         stats, statsMux, leaderboard, now, inserts,
                         startCorrect>>
       \/ /\ OtherWriter(c, i)
          /\ Fault

\* the stream function returns: the full response after the last fragment,
\* or an error while reading the body; then the evaluation of lines 634-641
WClose(c, i) ==
    /\ wpc[c][i] = "body"
    /\ \E err \in BOOLEAN :
          /\ ~err => wres[c][i].read = Len(wres[c][i].body)
          /\ wres' = [wres EXCEPT
                ![c][i].err = err,
                ![c][i].response = IF err THEN Empty ELSE @,
                ![c][i].isCorrect =
                    IF err THEN FALSE
                    ELSE checkAnswer(wres[c][i].response, game[c].Answer)]
    /\ wpc' = [wpc EXCEPT ![c][i] = "lock"]
    /\ UNCHANGED <<config, backend, connected, snapshot, pc, games, game,
                   gamesMux, dispatchIdx, wg, gameResult, sent, stats,
                   statsMux, leaderboard, now, inserts, startCorrect>>

\* a submission whose riddle has at most MaxChunkClues clues
ChunkSubmit(c) ==
    /\ Submit(c)
    /\ game'[c].NumClues <= MaxChunkClues

ChunkInit ==
    InitWith({<<ModelCfg("m1", "ollama"), ModelCfg("m2", "openai")>>}, {1},
             {<< >>})

ChunkNext ==
    \/ \E c \in Conns : ChunkSubmit(c)
    \/ \E c \in Conns : ReadError(c)
    \/ \E c \in Conns : RoundStart(c)
    \/ \E c \in Conns : Dispatch(c)
    \/ \E c \in Conns, i \in Workers : WOpen(c, i)
    \/ \E c \in Conns, i \in Workers : WChunk(c, i)
    \/ \E c \in Conns, i \in Workers : WClose(c, i)
    \/ \E c \in Conns, i \in Workers : WLock(c, i)
    \/ \E c \in Conns, i \in Workers : WUpdate(c, i)
    \/ \E c \in Conns, i \in Workers : WSend(c, i)
    \/ \E c \in Conns : Wait(c)
    \/ \E c \in Conns : Decide(c)
    \/ \E c \in Conns : UpdateStats(c)
    \/ \E c \in Conns : SaveStats(c)

ChunkSpec == ChunkInit /\ [][ChunkNext]_vars

(***************************************************************************)
(* Properties                                                              *)
(***************************************************************************)
AllIdle(c) == \A i \in Workers : wpc[c][i] = "idle"

\* the worker of config.Models[i] ran in the current round
Ran(c, i) == wres[c][i] # NoRes

\* positions of the handler after the decision step found the game over
FinalizingPcs == {"updateStats", "saveStats", "saveStatsParked",
                  "addToLeaderboard"}

HasEvent(c, type) == \E k \in 1..Len(sent[c]) : sent[c][k][1] = type

\* C1: once the termination condition holds after a round, the game is
\* finalized: updateStats and addToLeaderboard return and the game-over
\* result and the game-end message are eventually written.
C1_FinalizationCompletes ==
    \A c \in Conns :
        (pc[c] = "decide" /\ GameOver(game[c])) ~> HasEvent(c, "gameEnd")

C6_NoLostUpdates ==
    LET finalized == {c \in Conns : pc[c] \in FinalizingPcs}
        won == {c \in finalized : gameResult[c].PlayerWins}
        N == Cardinality(finalized)
        W == Cardinality(won)
    IN  (\A c \in finalized : ~ENABLED HandlerStep(c)) =>
            /\ stats.TotalGames = N
            /\ stats.Wins = W
            /\ stats.Losses = N - W
            /\ N > 0 => stats.WinRate.num * N = 100 * W * stats.WinRate.den

Sorted(lb) == \A i \in 1..(Len(lb) - 1) : lb[i].Score >= lb[i + 1].Score

\* C7: after any sequence of inserts the leaderboard holds at most 100
\* entries and is sorted non-increasing by score.
C7_CappedAndSorted ==
    /\ Len(leaderboard) <= 100
    /\ Sorted(leaderboard)

\* inserts have taken the leaderboard beyond 100 entries, scores differing
C7_Witness ==
    /\ Len(leaderboard) = 100
    /\ inserts >= 3
    /\ leaderboard[1].Score > leaderboard[2].Score
    /\ leaderboard[2].Score > leaderboard[100].Score

\* C8: of two entries with equal score, the one inserted earlier comes
\* first.
C8_StableTies ==
    \A i, j \in 1..Len(leaderboard) :
        (i < j /\ leaderboard[i].Score = leaderboard[j].Score) =>
            leaderboard[i].Timestamp < leaderboard[j].Timestamp

\* C9: a model's Correct flag is set only by a response that is not empty
\* and matches the answer; a worker that failed or returned empty text
\* leaves the flag as it was.
C9_EmptyNeverCorrect ==
    [][\A c \in Conns, i \in Workers :
          (wpc[c][i] = "update" /\ wpc'[c][i] = "send") =>
              LET name == config[i].Name
                  before == game[c].ModelStates[name].Correct
                  after == game'[c].ModelStates[name].Correct
              IN  /\ (wres[c][i].err \/ wres[c][i].response = Empty) =>
                         after = before
                  /\ (after /\ ~before) => wres[c][i].response # Empty]_vars

\* C10: a worker that failed or returned empty text leaves the three
\* histories of its model unchanged, so no entry of AllGuesses is empty.
C10_NoEmptyHistory ==
    \A c \in Conns :
        \A m \in DOMAIN game[c].ModelStates :
            \A k \in 1..Len(game[c].ModelStates[m].AllGuesses) :
                game[c].ModelStates[m].AllGuesses[k] # Empty

C12_CorrectMonotonic ==
    [][\A c \in Conns :
          pc[c] # "read" =>
              \A m \in DOMAIN game[c].ModelStates :
                  game[c].ModelStates[m].Correct =>
                      game'[c].ModelStates[m].Correct]_vars

\* the "result" messages written to c since the last "roundStart"
RECURSIVE ResultsOfRound(_)
ResultsOfRound(msgs) ==
    IF msgs = << >> \/ msgs[Len(msgs)][1] = "roundStart" THEN 0
    ELSE ResultsOfRound(SubSeq(msgs, 1, Len(msgs) - 1))
         + (IF msgs[Len(msgs)][1] = "result" THEN 1 ELSE 0)

Dispatched(c) == {i \in 1..Len(config) : wpc[c][i] # "idle" \/ Ran(c, i)}

\* C13: a game uses all configured models if they are at most three and
\* exactly three of them otherwise; rounds dispatch only to those, and
\* TotalModels of the result is their number, at most three.
C13_SolverSelection ==
    \A c \in Conns :
        c \in games =>
            LET selected == DOMAIN game[c].ModelStates
            IN  /\ Len(config) > 3 => Cardinality(selected) = 3
                /\ Len(config) <= 3 => selected = ModelNames
                /\ {config[i].Name : i \in Dispatched(c)} \subseteq selected
                /\ Cardinality(Dispatched(c)) <= 3
                /\ pc[c] \in FinalizingPcs =>
                      /\ gameResult[c].TotalModels = Cardinality(selected)
                      /\ gameResult[c].TotalModels <= 3

C14_DisconnectTearsDown ==
    /\ \A c \in Conns : (~connected[c] /\ c \in games) ~> (c \notin games)
    /\ [][(\E c \in Conns : ~connected[c]) => leaderboard' = leaderboard]_vars

\* C15: a game whose finalization has begun is eventually released from the
\* registry, without a disconnection being needed.
C15_ReleasedAtFinalization ==
    \A c \in Conns : (pc[c] \in FinalizingPcs) ~> (c \notin games)

\* C17: a lost game scores 0 whatever its difficulty, duration and counts:
\* every leaderboard entry of a lost game has score 0.
C17_LostScoresZero ==
    \A k \in 1..Len(leaderboard) :
        ~leaderboard[k].PlayerWon => leaderboard[k].Score = 0

\* a lost hard game of 120 seconds with every model correct is on the
\* leaderboard
C17_Witness ==
    \E k \in 1..Len(leaderboard) :
        /\ ~leaderboard[k].PlayerWon
        /\ leaderboard[k].Difficulty = "hard"
        /\ leaderboard[k].Duration = 120
        /\ leaderboard[k].CorrectCount = 3
        /\ leaderboard[k].TotalModels = 3

\* twice the multiplier of a difficulty tag: 1.0 easy, 1.5 medium, 2.0 hard,
\* 1.0 for any other tag
TwiceMultiplier(d) ==
    IF d = "medium" THEN 3 ELSE IF d = "hard" THEN 4 ELSE 2

\* C18: a won game of at most 60 seconds scores
\* 100 * multiplier + 50 + 20 * (TotalModels - CorrectCount).
C18_ScoreUpTo60 ==
    \A k \in 1..Len(leaderboard) :
        LET e == leaderboard[k]
        IN  (e.PlayerWon /\ e.Duration <= 60) =>
                e.Score = (100 * TwiceMultiplier(e.Difficulty)) \div 2 + 50
                          + 20 * (e.TotalModels - e.CorrectCount)

\* hard, 45 seconds, 1 of 3 correct: 290
C18_Witness ==
    \E k \in 1..Len(leaderboard) :
        /\ leaderboard[k].PlayerWon
        /\ leaderboard[k].Difficulty = "hard"
        /\ leaderboard[k].Duration = 45
        /\ leaderboard[k].CorrectCount = 1
        /\ leaderboard[k].TotalModels = 3
        /\ leaderboard[k].Score = 290

\* C19: a won game of more than 60 seconds scores the floor of
\* 100 * multiplier + 50 * (60 / duration) + 20 * (TotalModels -
\* CorrectCount), and the whole part of its time bonus is between 0 and 50:
\* with b the score less the two whole terms, b <= 3000 / duration < b + 1.
C19_ScoreBeyond60 ==
    \A k \in 1..Len(leaderboard) :
        LET e == leaderboard[k]
            b == e.Score - (100 * TwiceMultiplier(e.Difficulty)) \div 2
                 - 20 * (e.TotalModels - e.CorrectCount)
        IN  (e.PlayerWon /\ e.Duration > 60) =>
                /\ 0 <= b /\ b <= 50
                /\ b * e.Duration <= 50 * 60
                /\ 50 * 60 < (b + 1) * e.Duration

\* hard, 120 seconds, 1 of 3 correct: time bonus 25, score 265
C19_Witness ==
    \E k \in 1..Len(leaderboard) :
        /\ leaderboard[k].PlayerWon
        /\ leaderboard[k].Difficulty = "hard"
        /\ leaderboard[k].Duration = 120
        /\ leaderboard[k].CorrectCount = 1
        /\ leaderboard[k].TotalModels = 3
        /\ leaderboard[k].Score = 265

RECURSIVE SumOver(_, _)
SumOver(f, S) ==
    IF S = {} THEN 0
    ELSE LET x == CHOOSE y \in S : TRUE IN f[x] + SumOver(f, S \ {x})

\* C21: every response of GET /stats, whenever it is served, shows
\* Wins + Losses = TotalGames and the per-difficulty counters adding up to
\* TotalGames.
C21_ConsistentSnapshot ==
    \A k \in 1..Len(snapshot) :
        LET st == snapshot[k]
        IN  /\ st.Wins + st.Losses = st.TotalGames
            /\ SumOver(st.ByDifficulty, DOMAIN st.ByDifficulty) = st.TotalGames

\* a snapshot has been served, one handler is in the middle of the writes
\* of updateStats and the other is waiting for statsMux
C21_Witness ==
    /\ snapshot # << >>
    /\ \E c, d \in Conns :
          /\ pc[c] = "statsOutcome"
          /\ pc[d] = "updateStats"
          /\ stats.TotalGames = 1 /\ stats.Losses = 0

\* C22: no read of game.ModelStates outside gamesMux (the dispatch loop's
\* check of Correct, the count of the correct models) happens while a
\* worker is inside the critical section that writes the map.
C22_MapAccessProtected ==
    \A c \in Conns :
        MapWriter(c) =>
            /\ ~(pc[c] = "dispatch" /\ dispatchIdx[c] \in 1..Len(config))
            /\ pc[c] # "decide"

\* C28: at most one goroutine is writing to a connection at any time: no
\* two workers of a round write chunks or results at the same time, and no
\* worker writes while the handler writes the round's messages.
C28_SingleWriter ==
    \A c \in Conns :
        LET writers == {j \in 1..Len(config) : Writing(c, j)}
        IN  /\ Cardinality(writers) <= 1
            /\ pc[c] \in {"roundStart", "decide"} => writers = {}

\* C23: once updateStats has recorded a finalized game, the stats hold a
\* record for every model of the game, with gamesPlayed raised by one (from
\* empty stats: 1) and timesCorrect raised by one exactly for the models
\* whose Correct flag is set.
C23_PerModelStatsRecorded ==
    \A c \in Conns :
        pc[c] \in {"saveStats", "saveStatsParked"} =>
            \A m \in DOMAIN game[c].ModelStates :
                /\ "ByModel" \in DOMAIN stats
                /\ m \in DOMAIN stats.ByModel
                /\ stats.ByModel[m].GamesPlayed = 1
                /\ stats.ByModel[m].TimesCorrect =
                      (IF game[c].ModelStates[m].Correct THEN 1 ELSE 0)

\* C24: whatever becomes of the write of stats.json, a game whose result
\* updateStats has recorded keeps that record in memory and goes on to its
\* game-end message.
C24_SaveFailureNonFatal ==
    \A c \in Conns :
        (pc[c] = "saveStats") ~>
            (HasEvent(c, "gameEnd") /\ stats.TotalGames >= 1)

\* C27: no goroutine tries to lock a store mutex that it holds itself.
C27_NoSelfAcquire ==
    \A c \in Conns : ~(pc[c] = "saveStats" /\ statsMux = Handler(c))

\* C25: a non-empty answer matches itself, also when it begins with a
\* prefix that is stripped from the guess or ends with "?" or ".".
C25_Reflexive ==
    \A c \in Conns :
        (/\ wres[c][1] # NoRes
         /\ wres[c][1].response = game[c].Answer
         /\ game[c].Answer # Empty) => wres[c][1].isCorrect

\* "It's a cat?" has been matched against itself
C25_Witness ==
    /\ game[1].Answer = <<"I","t","'","s"," ","a"," ","c","a","t","?">>
    /\ wres[1][1] # NoRes
    /\ wres[1][1].response = game[1].Answer
    /\ wres[1][1].isCorrect

\* what the candidate and the canonical answer are, for each text, after
\* lowercasing and trimming, and for the candidate after stripping "the
\* answer is ", "i believe the answer is ", "based on the clues, it's ",
\* "it's ", "a ", "an " once each in this order and then one trailing "?"
\* and one trailing "."
ClaimedForms ==
    << [text |-> <<"T","h","e"," ","a","n","s","w","e","r"," ","i","s"," ","P","a","r","i","s",".">>,
         candidate |-> <<"p","a","r","i","s">>,
         canonical |-> <<"t","h","e"," ","a","n","s","w","e","r"," ","i","s"," ","p","a","r","i","s",".">>],
       [text |-> <<"p","a","r","i","s">>,
         candidate |-> <<"p","a","r","i","s">>,
         canonical |-> <<"p","a","r","i","s">>],
       [text |-> <<"P","a","r","i","s">>,
         candidate |-> <<"p","a","r","i","s">>,
         canonical |-> <<"p","a","r","i","s">>],
       [text |-> <<"T","o","k","y","o">>,
         candidate |-> <<"t","o","k","y","o">>,
         canonical |-> <<"t","o","k","y","o">>],
       [text |-> <<"a"," ","c","a","t">>,
         candidate |-> <<"c","a","t">>,
         canonical |-> <<"a"," ","c","a","t">>],
       [text |-> <<"I","t","'","s"," ","a"," ","c","a","t","?">>,
         candidate |-> <<"c","a","t">>,
         canonical |-> <<"i","t","'","s"," ","a"," ","c","a","t","?">>],
       [text |-> <<" ","C","a","t","."," ">>,
         candidate |-> <<"c","a","t">>,
         canonical |-> <<"c","a","t",".">>],
       [text |-> <<"a","n"," ">>,
         candidate |-> <<"a","n">>,
         canonical |-> <<"a","n">>],
       [text |-> <<"?">>,
         candidate |-> << >>,
         canonical |-> <<"?">>],
       [text |-> <<"a"," ","a","n"," ","x">>,
         candidate |-> <<"x">>,
         canonical |-> <<"a"," ","a","n"," ","x">>],
       [text |-> <<"a","n"," ","a"," ","x">>,
         candidate |-> <<"a"," ","x">>,
         canonical |-> <<"a","n"," ","a"," ","x">>],
       [text |-> <<"x","?",".">>,
         candidate |-> <<"x","?">>,
         canonical |-> <<"x","?",".">>],
       [text |-> << >>,
         candidate |-> << >>,
         canonical |-> << >>] >>

FormsOf(t) ==
    ClaimedForms[CHOOSE k \in 1..Len(ClaimedForms) : ClaimedForms[k].text = t]

IsSubstringOf(x, y) ==
    \E i \in 1..(Len(y) + 1), j \in 0..Len(y) : SubSeq(y, i, j) = x

\* C26: the match succeeds exactly when the normalized candidate and the
\* normalized canonical answer are equal or one is a substring of the
\* other; "The answer is Paris." matches "paris", "Tokyo" does not match
\* "Paris".
C26_MatchRule ==
    \A c \in Conns :
        wres[c][1] # NoRes =>
            LET t == wres[c][1].response
                a == game[c].Answer
                cand == FormsOf(t).candidate
                canon == FormsOf(a).canonical
            IN  /\ wres[c][1].isCorrect <=>
                      (\/ cand = canon
                       \/ IsSubstringOf(cand, canon)
                       \/ IsSubstringOf(canon, cand))
                /\ (/\ t = <<"T","h","e"," ","a","n","s","w","e","r"," ",
                             "i","s"," ","P","a","r","i","s",".">>
                    /\ a = <<"p","a","r","i","s">>) => wres[c][1].isCorrect
                /\ (/\ t = <<"T","o","k","y","o">>
                    /\ a = <<"P","a","r","i","s">>) => ~wres[c][1].isCorrect

\* "The answer is Paris." has been matched against "paris"
C26_Witness ==
    /\ wres[1][1] # NoRes
    /\ wres[1][1].response =
          <<"T","h","e"," ","a","n","s","w","e","r"," ",
            "i","s"," ","P","a","r","i","s",".">>
    /\ game[1].Answer = <<"p","a","r","i","s">>
    /\ wres[1][1].isCorrect

\* C29: when the dispatch loop of a round is through, the workers started
\* in the round are those of the configured models whose Correct flag was
\* false when the round began, one each, and no others.
C29_DispatchPerIncorrect ==
    \A c \in Conns :
        pc[c] \in {"wait", "decide"} =>
            Dispatched(c) =
                {i \in 1..Len(config) : config[i].Name \notin startCorrect[c]}

\* the number of "roundStart" messages written to a connection
RECURSIVE RoundsStarted(_)
RoundsStarted(msgs) ==
    IF msgs = << >> THEN 0
    ELSE RoundsStarted(Tail(msgs))
         + (IF Head(msgs)[1] = "roundStart" THEN 1 ELSE 0)

RECURSIVE OwnIncorrect(_, _)
OwnIncorrect(guesses, results) ==
    IF guesses = << >> THEN << >>
    ELSE LET rest == OwnIncorrect(Tail(guesses), Tail(results)) IN
         IF ~Head(results) /\ \E k \in 1..Len(Head(guesses)) :
                                 ~IsSpace(Head(guesses)[k])
         THEN <<Head(guesses)>> \o rest ELSE rest

C33_StoresUpdatedOnce ==
    LET finalized == {c \in Conns : pc[c] \in FinalizingPcs}
        N == Cardinality(finalized)
    IN  /\ N = 0 => (stats = ZeroStats /\ leaderboard = << >>)
        /\ (\A c \in finalized : ~ENABLED HandlerStep(c)) =>
              /\ stats.TotalGames = N
              /\ Len(leaderboard) =
                    IF N < LeaderboardCap THEN N ELSE LeaderboardCap

\* the entries of a leaderboard
Entries(lb) == {lb[k] : k \in 1..Len(lb)}

\* C34: an insert of e into a leaderboard L leaves exactly the entries of
\* L and e, unchanged, when L has fewer than 100 entries, and otherwise
\* those entries without one of minimal score; no entry appears twice and
\* none is modified.
C34_InsertFrame ==
    [][inserts' = inserts + 1 =>
          LET e == Entry(gameResult'[1])
              all == Entries(leaderboard) \cup {e}
              kept == Entries(leaderboard')
          IN  /\ Cardinality(kept) = Len(leaderboard')
              /\ kept \subseteq all
              /\ Len(leaderboard) < LeaderboardCap =>
                    /\ kept = all
                    /\ Len(leaderboard') = Len(leaderboard) + 1
              /\ Len(leaderboard) >= LeaderboardCap =>
                    /\ Len(leaderboard') = LeaderboardCap
                    /\ \E d \in all :
                          /\ kept = all \ {d}
                          /\ \A x \in all : d.Score <= x.Score]_vars

\* an insert into a full leaderboard has kept the new entry and dropped an
\* older one
C34_Witness ==
    /\ inserts >= 2
    /\ Len(leaderboard) = LeaderboardCap
    /\ Entry(gameResult[1]) \in Entries(leaderboard)
    /\ \E k \in 1..Len(leaderboard) : leaderboard[k].Timestamp < LeaderboardCap

\* C35: the success round of a model is 0 while its Correct flag is
\* false; when the flag becomes true in round r it is set to r + 1, and
\* from then on it does not change for the rest of the game.
C35_SuccessRound ==
    [][\A c \in Conns :
          (c \in games /\ c \in games') =>
              \A m \in DOMAIN game[c].ModelStates :
                  LET old == game[c].ModelStates[m]
                      new == game'[c].ModelStates[m]
                  IN  /\ ~new.Correct => new.Round = 0
                      /\ (~old.Correct /\ new.Correct) =>
                            new.Round = game[c].CurrentRound + 1
                      /\ old.Round # 0 => new.Round = old.Round]_vars

\* the messages written to a connection since the last "roundStart"
RECURSIVE RoundEvents(_)
RoundEvents(msgs) ==
    IF msgs = << >> \/ msgs[Len(msgs)][1] = "roundStart" THEN << >>
    ELSE Append(RoundEvents(SubSeq(msgs, 1, Len(msgs) - 1)), msgs[Len(msgs)])

IsChunkOf(ev, name) == ev[1] = "guess" /\ ev[2] = name

IsResultOf(ev, name) == ev[1] = "result" /\ ev[2] = name

\* C36: the chunk messages of one model in a round are written in the
\* order in which the backend generated the fragments, and all of them are
\* written before the result message of that model.
C36_ChunksInOrder ==
    \A c \in Conns : \A i \in 1..Len(config) :
        c \in games =>
            LET name == config[i].Name
                evs == RoundEvents(sent[c])
                mine == SelectSeq(evs, LAMBDA ev : IsChunkOf(ev, name))
            IN  /\ ~Ran(c, i) => mine = << >>
                /\ Ran(c, i) =>
                      /\ [k \in 1..Len(mine) |-> mine[k][3]] =
                            SubSeq(wres[c][i].body, 1, wres[c][i].read)
                      /\ (\E k \in 1..Len(evs) : IsResultOf(evs[k], name)) =>
                            wres[c][i].read = Len(wres[c][i].body)
                /\ \A k, l \in 1..Len(evs) :
                      (k < l /\ IsResultOf(evs[k], name)) =>
                          ~IsChunkOf(evs[l], name)

\* a model has written two chunks and its result, with a chunk of the
\* other model in between
C36_Witness ==
    \E c \in Conns :
        LET evs == RoundEvents(sent[c]) IN
        \E k1, k2, k3, k4 \in 1..Len(evs) :
            /\ k1 < k2 /\ k2 < k3 /\ k3 < k4
            /\ evs[k1] = <<"guess", "m1", <<"c">>>>
            /\ IsChunkOf(evs[k2], "m2")
            /\ evs[k3] = <<"guess", "m1", <<"a", "t">>>>
            /\ IsResultOf(evs[k4], "m1")

\* the messages of a connection are in session order: the first is the
\* roundStart of round 0; a roundStart after that follows the summary of
\* the previous round and carries the round that summary announced; a
\* summary is followed by a roundStart or by the game-end message only, so
\* the chunks and results of a round lie between its roundStart and its
\* summary; the game-end message follows a summary and nothing follows it
SessionOrder(c) ==
    LET msgs == sent[c] IN
    \A k \in 1..Len(msgs) :
        /\ k = 1 => msgs[k] = <<"roundStart", 0>>
        /\ (k > 1 /\ msgs[k][1] = "roundStart") =>
              /\ msgs[k - 1][1] = "gameResult"
              /\ msgs[k][2] = msgs[k - 1][4]
        /\ (k < Len(msgs) /\ msgs[k][1] = "gameResult") =>
              msgs[k + 1][1] \in {"roundStart", "gameEnd"}
        /\ msgs[k][1] = "gameEnd" =>
              /\ k = Len(msgs)
              /\ k > 1 /\ msgs[k - 1][1] = "gameResult"

\* the session has ended with the summary of the last round followed by
\* the one game-end message
TerminalLast(c) ==
    /\ sent[c] # << >>
    /\ sent[c][Len(sent[c])][1] = "gameEnd"
    /\ Cardinality({k \in 1..Len(sent[c]) : sent[c][k][1] = "gameEnd"}) = 1

\* C37: the events of a session are ordered: the roundStart of a round
\* precedes every chunk and result of the round, the round's summary
\* follows them and precedes the next roundStart, and the game-end message
\* is written exactly once, last, after the summary of the final round.
C37_SessionOrder ==
    \A c \in Conns :
        /\ [](SessionOrder(c))
        /\ (pc[c] = "decide" /\ GameOver(game[c])) ~> TerminalLast(c)

\* the ordering alone: what is written is written in session order
WrittenInSessionOrder == \A c \in Conns : SessionOrder(c)

C39_DecisionArithmetic ==
    \A c \in Conns :
        (c \in games /\ pc[c] = "decide") =>
            LET g == game[c]
                entries == DOMAIN g.ModelStates
            IN  /\ totalModels = Cardinality(entries)
                /\ 0 <= CorrectCount(g)
                /\ CorrectCount(g) <= totalModels
                /\ allCorrect(g) <=> \A m \in entries : g.ModelStates[m].Correct

====
